---- MODULE Spec2Model ----
(***************************************************************************)
(* A model of the LC-3 virtual machine of src/lc3.c: the process start-up  *)
(* (argument check, image loading, terminal set-up), the fetch / decode /  *)
(* execute loop and the opcode handlers.                                   *)
(*                                                                         *)
(* The handlers of ADD, AND and LDI, sign_extend, update_flags and the     *)
(* loop itself are translated from src/lc3.c.  The file leaves the other   *)
(* handlers, mem_read, read_image and the terminal functions out (the      *)
(* "@{NOT}" ... "@{TRAP}" chunks and undeclared callees); those are        *)
(* modelled from the design document and are marked so where defined.      *)
(***************************************************************************)
EXTENDS Integers, Sequences, FiniteSets, TLC

VARIABLES
    memory,     \* uint16_t memory[MEMORY_MAX], as the finite map of its non-zero cells
    reg,        \* uint16_t reg[R_COUNT]
    running,    \* int running (main)
    instr,      \* uint16_t instr (main, the word fetched last)
    loc,        \* the position of main
    argv,       \* the image files named on the command line, argv[1..argc-1]
    j,          \* int j, the index of the image being loaded
    termRaw,    \* the terminal is in the raw mode disable_input_buffering sets
    exitCode,   \* the exit status of the process, NoExit while it runs
    output,     \* the bytes written to the output device
    cycles,     \* the number of fetch cycles begun (bounds the run)
    seIn,       \* the argument of a single sign_extend call (SpecSignExtend)
    seOut       \* its result

vars == <<memory, reg, running, instr, loc, argv, j, termRaw, exitCode,
          output, cycles, seIn, seOut>>

machine == <<memory, reg, running, instr, loc, argv, j, termRaw, exitCode,
             output, cycles>>

(***************************************************************************)
(* Constants of the program.                                               *)
(***************************************************************************)
MEMORY_MAX == 65536

R_R0 == 0
R_R7 == 7
R_PC == 8
R_COND == 9
R_COUNT == 10

FL_POS == 1
FL_ZRO == 2
FL_NEG == 4

OP_BR == 0
OP_ADD == 1
OP_LD == 2
OP_ST == 3
OP_JSR == 4
OP_AND == 5
OP_LDR == 6
OP_STR == 7
OP_RTI == 8
OP_NOT == 9
OP_LDI == 10
OP_STI == 11
OP_JMP == 12
OP_RES == 13
OP_LEA == 14
OP_TRAP == 15

PC_START == 12288

\* The memory-mapped keyboard registers and the trap vectors (design document,
\* sections 3 and 4.6; the numbers are those of the published LC-3 architecture).
MR_KBSR == 65024
MR_KBDR == 65026

TRAP_GETC == 32
TRAP_OUT == 33
TRAP_PUTS == 34
TRAP_IN == 35
TRAP_PUTSP == 36
TRAP_HALT == 37

(***************************************************************************)
(* C integer operations.  Operands are non-negative integers; a uint16_t   *)
(* operand is promoted to int in an expression and the result is reduced   *)
(* modulo 2^16 where it is stored into a uint16_t.                         *)
(***************************************************************************)
U16(x) == x % MEMORY_MAX

Shr(x, n) == x \div (2 ^ n)

Shl(x, n) == x * (2 ^ n)

RECURSIVE BitAnd(_, _)
BitAnd(a, b) ==
    IF a = 0 \/ b = 0 THEN 0
    ELSE (a % 2) * (b % 2) + 2 * BitAnd(a \div 2, b \div 2)

RECURSIVE BitOr(_, _)
BitOr(a, b) ==
    IF a = 0 THEN b
    ELSE IF b = 0 THEN a
    ELSE ((a % 2) + (b % 2) - (a % 2) * (b % 2)) + 2 * BitOr(a \div 2, b \div 2)

\* ~x of a uint16_t, stored back into a uint16_t
BitNot16(x) == (MEMORY_MAX - 1) - x

(***************************************************************************)
(* sign_extend (src/lc3.c 60-65)                                           *)
(***************************************************************************)
sign_extend_noext(x, bit_count) == x

sign_extend_lowbit(x, bit_count) ==
    IF BitAnd(Shr(x, bit_count), 1) # 0
    THEN U16(BitOr(x, Shl(65535, bit_count)))
    ELSE x

sign_extend(x, bit_count) ==
    IF BitAnd(Shr(x, bit_count - 1), 1) # 0
    THEN U16(BitOr(x, Shl(65535, bit_count)))
    ELSE x

(***************************************************************************)
(* update_flags (src/lc3.c 67-77): the register file with R_COND set from  *)
(* the value of register r.                                                *)
(***************************************************************************)
update_flags_nozero(rg, r) ==
    IF Shr(rg[r], 15) # 0
    THEN [rg EXCEPT ![R_COND] = FL_NEG]
    ELSE [rg EXCEPT ![R_COND] = FL_POS]

update_flags(rg, r) ==
    IF rg[r] = 0
    THEN [rg EXCEPT ![R_COND] = FL_ZRO]
    ELSE IF Shr(rg[r], 15) # 0
         THEN [rg EXCEPT ![R_COND] = FL_NEG]
         ELSE [rg EXCEPT ![R_COND] = FL_POS]

(***************************************************************************)
(* The address space.  memory[] is a zero-initialised array of MEMORY_MAX  *)
(* cells; the model keeps the finite map of the cells that are not 0.      *)
(***************************************************************************)
MemAt(m, a) == IF a \in DOMAIN m THEN m[a] ELSE 0

MemWrite(m, a, v) ==
    LET dom == IF v = 0 THEN DOMAIN m \ {a} ELSE DOMAIN m \cup {a}
    IN [x \in dom |-> IF x = a THEN v ELSE m[x]]

EmptyMemory == [x \in {} |-> 0]

\* The input device: NoKey when no character is waiting, else the character.
NoKey == 0 - 1
Keys == {97}

\* What a poll of the keyboard at a read of `address` can find.
Poll(address) == IF U16(address) = MR_KBSR THEN {NoKey} \cup Keys ELSE {NoKey}

(***************************************************************************)
(* mem_read (design document, section 3): a read of the keyboard-status    *)
(* cell polls the input device first; the result is the cell's value.      *)
(* The parameter is a uint16_t address.                                    *)
(***************************************************************************)
mem_read(m, address, key) ==
    LET a == U16(address)
        m1 == IF a = MR_KBSR
              THEN IF key # NoKey
                   THEN MemWrite(MemWrite(m, MR_KBSR, Shl(1, 15)), MR_KBDR, key)
                   ELSE MemWrite(m, MR_KBSR, 0)
              ELSE m
    IN [mem |-> m1, val |-> MemAt(m1, a)]

(***************************************************************************)
(* Decoding (src/lc3.c 109 and the field extractions of the handlers).     *)
(***************************************************************************)
OpOf_low(i) == Shr(i, 11)

OpOf(i) == Shr(i, 12)

(***************************************************************************)
(* OP_ADD (src/lc3.c 113-129): the register file after the handler.        *)
(***************************************************************************)
op_add_clobber(rg, i) ==
    LET r0 == BitAnd(Shr(i, 9), 7)
        r1 == BitAnd(Shr(i, 6), 7)
        imm_flag == BitAnd(Shr(i, 5), 1)
    IN IF imm_flag # 0
       THEN LET imm5 == sign_extend(BitAnd(i, 31), 5)
                sum == U16(rg[r1] + imm5)
            IN update_flags([rg EXCEPT ![r1] = sum, ![r0] = sum], r0)
       ELSE LET r2 == BitAnd(i, 7)
                sum == U16(rg[r1] + rg[r2])
            IN update_flags([rg EXCEPT ![r1] = sum, ![r0] = sum], r0)

op_add_sr1(rg, i) ==
    LET r0 == BitAnd(Shr(i, 9), 7)
        r1 == BitAnd(Shr(i, 6), 7)
        imm_flag == BitAnd(Shr(i, 5), 1)
    IN IF imm_flag # 0
       THEN LET imm5 == sign_extend(BitAnd(i, 31), 5)
            IN update_flags([rg EXCEPT ![r0] = U16(rg[r0] + imm5)], r0)
       ELSE LET r2 == BitAnd(i, 7)
            IN update_flags([rg EXCEPT ![r0] = U16(rg[r1] + rg[r2])], r0)

op_add(rg, i) ==
    LET r0 == BitAnd(Shr(i, 9), 7)
        r1 == BitAnd(Shr(i, 6), 7)
        imm_flag == BitAnd(Shr(i, 5), 1)
    IN IF imm_flag # 0
       THEN LET imm5 == sign_extend(BitAnd(i, 31), 5)
            IN update_flags([rg EXCEPT ![r0] = U16(rg[r1] + imm5)], r0)
       ELSE LET r2 == BitAnd(i, 7)
            IN update_flags([rg EXCEPT ![r0] = U16(rg[r1] + rg[r2])], r0)

(***************************************************************************)
(* OP_AND (src/lc3.c 130-146)                                              *)
(***************************************************************************)
op_and_rawimm(rg, i) ==
    LET r0 == BitAnd(Shr(i, 9), 7)
        r1 == BitAnd(Shr(i, 6), 7)
        imm_flag == BitAnd(Shr(i, 5), 1)
    IN IF imm_flag # 0
       THEN LET imm5 == BitAnd(i, 31)
            IN update_flags([rg EXCEPT ![r0] = BitAnd(rg[r1], imm5)], r0)
       ELSE LET r2 == BitAnd(i, 7)
            IN update_flags([rg EXCEPT ![r0] = BitAnd(rg[r1], rg[r2])], r0)

op_and(rg, i) ==
    LET r0 == BitAnd(Shr(i, 9), 7)
        r1 == BitAnd(Shr(i, 6), 7)
        imm_flag == BitAnd(Shr(i, 5), 1)
    IN IF imm_flag # 0
       THEN LET imm5 == sign_extend(BitAnd(i, 31), 5)
            IN update_flags([rg EXCEPT ![r0] = BitAnd(rg[r1], imm5)], r0)
       ELSE LET r2 == BitAnd(i, 7)
            IN update_flags([rg EXCEPT ![r0] = BitAnd(rg[r1], rg[r2])], r0)

(***************************************************************************)
(* OP_LDI (src/lc3.c 162-169): the inner mem_read runs first, the outer    *)
(* one on the memory it leaves; k1 and k2 are what the two reads find at   *)
(* the keyboard.  The result is the register file and the memory.          *)
(***************************************************************************)
op_ldi_direct(rg, m, i, k1, k2) ==
    LET r0 == BitAnd(Shr(i, 9), 7)
        pc_offset == sign_extend(BitAnd(i, 511), 9)
        inner == mem_read(m, rg[R_PC] + pc_offset, k1)
    IN [reg |-> update_flags([rg EXCEPT ![r0] = inner.val], r0),
        mem |-> inner.mem]

op_ldi_rawoff(rg, m, i, k1, k2) ==
    LET r0 == BitAnd(Shr(i, 9), 7)
        pc_offset == BitAnd(i, 511)
        inner == mem_read(m, rg[R_PC] + pc_offset, k1)
        outer == mem_read(inner.mem, inner.val, k2)
    IN [reg |-> update_flags([rg EXCEPT ![r0] = outer.val], r0),
        mem |-> outer.mem]

op_ldi(rg, m, i, k1, k2) ==
    LET r0 == BitAnd(Shr(i, 9), 7)
        pc_offset == sign_extend(BitAnd(i, 511), 9)
        inner == mem_read(m, rg[R_PC] + pc_offset, k1)
        outer == mem_read(inner.mem, inner.val, k2)
    IN [reg |-> update_flags([rg EXCEPT ![r0] = outer.val], r0),
        mem |-> outer.mem]

(***************************************************************************)
(* The handlers src/lc3.c leaves out, from the design document (sections   *)
(* 4.3 to 4.5), with the field layout of the published instruction set.    *)
(***************************************************************************)
op_not(rg, i) ==
    LET r0 == BitAnd(Shr(i, 9), 7)
        r1 == BitAnd(Shr(i, 6), 7)
    IN update_flags([rg EXCEPT ![r0] = BitNot16(rg[r1])], r0)

op_br(rg, i) ==
    LET pc_offset == sign_extend(BitAnd(i, 511), 9)
        cond_flag == BitAnd(Shr(i, 9), 7)
    IN IF BitAnd(cond_flag, rg[R_COND]) # 0
       THEN [rg EXCEPT ![R_PC] = U16(rg[R_PC] + pc_offset)]
       ELSE rg

op_jmp(rg, i) ==
    LET r1 == BitAnd(Shr(i, 6), 7)
    IN [rg EXCEPT ![R_PC] = rg[r1]]

op_jsr(rg, i) ==
    LET long_flag == BitAnd(Shr(i, 11), 1)
        saved == [rg EXCEPT ![R_R7] = rg[R_PC]]
    IN IF long_flag # 0
       THEN LET long_pc_offset == sign_extend(BitAnd(i, 2047), 11)
            IN [saved EXCEPT ![R_PC] = U16(saved[R_PC] + long_pc_offset)]
       ELSE LET r1 == BitAnd(Shr(i, 6), 7)
            IN [saved EXCEPT ![R_PC] = saved[r1]]

op_ld(rg, m, i, k1) ==
    LET r0 == BitAnd(Shr(i, 9), 7)
        pc_offset == sign_extend(BitAnd(i, 511), 9)
        rd == mem_read(m, rg[R_PC] + pc_offset, k1)
    IN [reg |-> update_flags([rg EXCEPT ![r0] = rd.val], r0), mem |-> rd.mem]

op_ldr(rg, m, i, k1) ==
    LET r0 == BitAnd(Shr(i, 9), 7)
        r1 == BitAnd(Shr(i, 6), 7)
        offset == sign_extend(BitAnd(i, 63), 6)
        rd == mem_read(m, rg[r1] + offset, k1)
    IN [reg |-> update_flags([rg EXCEPT ![r0] = rd.val], r0), mem |-> rd.mem]

op_lea(rg, i) ==
    LET r0 == BitAnd(Shr(i, 9), 7)
        pc_offset == sign_extend(BitAnd(i, 511), 9)
    IN update_flags([rg EXCEPT ![r0] = U16(rg[R_PC] + pc_offset)], r0)

\* mem_write: writes pass through, also to the keyboard cells
mem_write(m, address, val) == MemWrite(m, U16(address), val)

op_st(rg, m, i) ==
    LET r0 == BitAnd(Shr(i, 9), 7)
        pc_offset == sign_extend(BitAnd(i, 511), 9)
    IN mem_write(m, rg[R_PC] + pc_offset, rg[r0])

op_sti(rg, m, i, k1) ==
    LET r0 == BitAnd(Shr(i, 9), 7)
        pc_offset == sign_extend(BitAnd(i, 511), 9)
        rd == mem_read(m, rg[R_PC] + pc_offset, k1)
    IN mem_write(rd.mem, rd.val, rg[r0])

op_str(rg, m, i) ==
    LET r0 == BitAnd(Shr(i, 9), 7)
        r1 == BitAnd(Shr(i, 6), 7)
        offset == sign_extend(BitAnd(i, 63), 6)
    IN mem_write(m, rg[r1] + offset, rg[r0])

(***************************************************************************)
(* The trap routines' output (design document, section 4.6).               *)
(***************************************************************************)
\* PUTS: the low byte of each word from address a up to a zero word
RECURSIVE puts_chars(_, _)
puts_chars(m, a) ==
    IF a >= MEMORY_MAX \/ MemAt(m, a) = 0 THEN <<>>
    ELSE <<BitAnd(MemAt(m, a), 255)>> \o puts_chars(m, a + 1)

\* PUTSP: two characters a word, the low byte then the high byte unless it is 0
RECURSIVE putsp_chars(_, _)
putsp_chars(m, a) ==
    IF a >= MEMORY_MAX \/ MemAt(m, a) = 0 THEN <<>>
    ELSE LET char1 == BitAnd(MemAt(m, a), 255)
             char2 == Shr(MemAt(m, a), 8)
         IN (IF char1 = 0 THEN <<>> ELSE <<char1>>)
            \o (IF char2 = 0 THEN <<>> ELSE <<char2>>)
            \o putsp_chars(m, a + 1)

HaltMessage == <<72, 65, 76, 84, 10>>
InPrompt == <<62, 32>>

(***************************************************************************)
(* read_image (design document, section 6): the first word of a file is    *)
(* the load origin, the following words go to consecutive addresses.  A    *)
(* file is modelled as [ok, origin, words]; ok is FALSE for a file that    *)
(* cannot be opened.                                                       *)
(***************************************************************************)
RECURSIVE store_words(_, _, _)
store_words(m, origin, words) ==
    IF words = <<>> \/ origin >= MEMORY_MAX THEN m
    ELSE store_words(MemWrite(m, origin, Head(words)), origin + 1, Tail(words))

read_image(m, file) == store_words(m, file.origin, file.words)

(***************************************************************************)
(* Bounds of the model.                                                    *)
(***************************************************************************)
\* the number of fetch cycles a run may begin
MaxCycles == 5
\* the longest instruction sequence drawn freely from GenWords
BodyLen == 1

(***************************************************************************)
(* The inputs: instruction words and image files.                          *)
(***************************************************************************)
Enc(op, rest) == op * 4096 + rest
EncReg(op, dr, sr1, sr2) == Enc(op, dr * 512 + sr1 * 64 + sr2)
EncImm(op, dr, sr1, imm5) == Enc(op, dr * 512 + sr1 * 64 + 32 + imm5)
EncOff9(op, r, off9) == Enc(op, r * 512 + off9)
EncBase(op, r, base, off6) == Enc(op, r * 512 + base * 64 + off6)
EncTrap(vect) == Enc(OP_TRAP, vect)

\* The data every image carries: two pointer cells and the two values they
\* point to, at fixed places behind the code.
DataAt == 16
PtrCell1 == PC_START + DataAt
PtrCell2 == PC_START + DataAt + 1
ValCell1 == PC_START + DataAt + 2
ValCell2 == PC_START + DataAt + 3

RECURSIVE Zeros(_)
Zeros(n) == IF n <= 0 THEN <<>> ELSE <<0>> \o Zeros(n - 1)

ImageFile(code, v1, v2) ==
    [ok |-> TRUE, origin |-> PC_START,
     words |-> code \o Zeros(DataAt - Len(code)) \o <<ValCell1, ValCell2, v1, v2>>]

BadFile == [ok |-> FALSE, origin |-> 0, words |-> <<>>]

\* A second image whose range intersects the first: it replaces the first word.
HaltOverlay == [ok |-> TRUE, origin |-> PC_START, words |-> <<EncTrap(TRAP_HALT)>>]

\* LDI R1 and LDI R2 through the two pointer cells: R1 = v1, R2 = v2
LoadPrefix == <<EncOff9(OP_LDI, 1, DataAt - 1), EncOff9(OP_LDI, 2, DataAt - 1)>>

ValPairs ==
    { <<0, 0>>, <<1, 65535>>, <<32767, 1>>, <<32768, 32768>>, <<65535, 65535>>,
      <<4660, 255>>, <<32768, 32767>>, <<21845, 43690>>, <<65024, 12288>> }

GenPairs == { <<0, 0>>, <<65024, 12305>>, <<32767, 65535>> }

\* ADD and AND in every form over R0..R2 (unused bits 4-3 set in some),
\* and with every 5-bit immediate
AluWords ==
    { EncReg(op, d, a, b) : op \in {OP_ADD, OP_AND}, d \in 0..2, a \in 0..2, b \in 0..2 }
    \cup { EncReg(op, 3, 1, 2 + 24) : op \in {OP_ADD, OP_AND} }
    \cup { EncImm(op, d, 1, k) : op \in {OP_ADD, OP_AND}, d \in {0, 1}, k \in 0..31 }
    \cup { EncImm(op, 7, 2, k) : op \in {OP_ADD, OP_AND}, k \in {0, 1, 15, 16, 31} }

GenWords ==
    { 0,                                   \* BR with no condition bit: never taken
      EncOff9(OP_BR, 2, 1),                \* BRz +1
      EncOff9(OP_BR, 5, 1),                \* BRnp +1
      EncOff9(OP_BR, 7, 510),              \* BRnzp -2
      EncImm(OP_ADD, 0, 0, 5),             \* ADD R0, R0, #5
      EncImm(OP_ADD, 1, 1, 31),            \* ADD R1, R1, #-1
      EncReg(OP_ADD, 1, 1, 2),             \* ADD R1, R1, R2
      EncImm(OP_AND, 1, 1, 0),             \* AND R1, R1, #0
      EncReg(OP_NOT, 0, 1, 63),            \* NOT R0, R1
      EncOff9(OP_LD, 3, DataAt),           \* LD R3
      EncOff9(OP_LDI, 0, DataAt),          \* LDI R0
      EncOff9(OP_LDI, 3, DataAt - 1),      \* LDI R3
      EncBase(OP_LDR, 0, 1, 0),            \* LDR R0, R1, #0
      EncOff9(OP_LEA, 0, 511),             \* LEA R0, #-1
      EncOff9(OP_ST, 1, 3),                \* ST R1, #3
      EncOff9(OP_STI, 1, DataAt),          \* STI R1
      EncBase(OP_STR, 2, 1, 1),            \* STR R2, R1, #1
      EncBase(OP_JMP, 0, 1, 0),            \* JMP R1
      Enc(OP_JSR, 2048 + 1),               \* JSR +1
      EncBase(OP_JSR, 0, 1, 0),            \* JSRR R1
      Enc(OP_RTI, 0),
      Enc(OP_RES, 0),
      EncTrap(TRAP_GETC), EncTrap(TRAP_OUT), EncTrap(TRAP_PUTS),
      EncTrap(TRAP_IN), EncTrap(TRAP_PUTSP), EncTrap(TRAP_HALT),
      EncTrap(0) }

RECURSIVE SeqsUpTo(_, _)
SeqsUpTo(S, n) ==
    IF n = 0 THEN { <<>> }
    ELSE LET shorter == SeqsUpTo(S, n - 1)
         IN shorter \cup { Append(q, w) : q \in shorter, w \in S }

Bodies == SeqsUpTo(GenWords, BodyLen) \ { <<>> }

AluFiles == { ImageFile(LoadPrefix \o <<w>>, p[1], p[2]) : w \in AluWords, p \in ValPairs }

GenFiles ==
    { ImageFile(pre \o body, p[1], p[2]) :
        pre \in { <<>>, LoadPrefix }, body \in Bodies, p \in GenPairs }

\* Whole programs: an addition then HALT; a countdown loop; a call and return;
\* a string written by PUTS
Scenarios ==
    { <<EncImm(OP_ADD, 0, 0, 5), EncTrap(TRAP_HALT)>>,
      <<EncImm(OP_ADD, 0, 0, 1), EncImm(OP_ADD, 0, 0, 31), EncOff9(OP_BR, 5, 510),
        EncTrap(TRAP_HALT)>>,
      <<Enc(OP_JSR, 2048 + 1), EncTrap(TRAP_HALT), EncBase(OP_JMP, 0, 7, 0)>>,
      <<EncOff9(OP_LEA, 0, 2), EncTrap(TRAP_PUTS), EncTrap(TRAP_HALT), 72, 105>> }

ScenarioFiles == { ImageFile(code, 0, 0) : code \in Scenarios }

\* Images at the two ends of the address space.  The entry program loads R1
\* with the address v and jumps there; the high image holds a pointer and two
\* LDI whose effective address lies past 0xFFFF; the low image holds an LDI
\* whose effective address lies before 0x0000, and the cell 4 all of them
\* end at.
WrapEntry(v) ==
    ImageFile(<<EncOff9(OP_LDI, 1, DataAt - 1), EncBase(OP_JMP, 0, 1, 0)>>, v, 0)

HighImage ==
    [ok |-> TRUE, origin |-> MEMORY_MAX - 3,
     words |-> <<4, EncOff9(OP_LDI, 3, 3), EncOff9(OP_LDI, 4, 2)>>]

LowImage ==
    [ok |-> TRUE, origin |-> 0,
     words |-> <<EncOff9(OP_LDI, 5, 508), EncImm(OP_ADD, 5, 5, 1), 4, 0, 32769>>]

WrapLists ==
    { <<WrapEntry(v), HighImage, LowImage>> : v \in {MEMORY_MAX - 2, MEMORY_MAX - 1, 0} }

FirstWords == { EncImm(OP_ADD, 0, 0, 5), EncTrap(TRAP_HALT), Enc(OP_RES, 0), 0 }

ArgLists ==
    { <<>>, <<BadFile>> }
    \cup { <<f>> : f \in AluFiles \cup GenFiles \cup ScenarioFiles }
    \cup { <<ImageFile(<<w>>, 0, 0), BadFile>> : w \in FirstWords }
    \cup { <<ImageFile(<<w>>, 0, 0), HaltOverlay>> : w \in FirstWords }
    \cup WrapLists

NoExit == 0 - 1
NoResult == 0 - 1
SignExtendWidths == {5, 6, 9, 11}
IdleCall == [x |-> 0, w |-> 5]

(***************************************************************************)
(* The state after the process is created: the globals memory[] and reg[]  *)
(* are zero (src/lc3.c 15, 31).                                            *)
(***************************************************************************)
InitMachine ==
    /\ memory = EmptyMemory
    /\ reg = [r \in 0..(R_COUNT - 1) |-> 0]
    /\ running = FALSE
    /\ instr = 0
    /\ loc = "args"
    /\ j = 0
    /\ termRaw = FALSE
    /\ exitCode = NoExit
    /\ output = <<>>
    /\ cycles = 0

Init ==
    /\ InitMachine
    /\ argv \in ArgLists
    /\ seIn = IdleCall
    /\ seOut = NoResult

argc == Len(argv) + 1

(***************************************************************************)
(* main, start-up (src/lc3.c 80-105)                                       *)
(***************************************************************************)
\* 81-84: too few arguments
CheckArgs_exit1 ==
    /\ loc = "args"
    /\ IF argc < 2
       THEN /\ exitCode' = 1
            /\ loc' = "exited"
            /\ j' = j
       ELSE /\ j' = 1
            /\ loc' = "load"
            /\ exitCode' = exitCode
    /\ UNCHANGED <<memory, reg, running, instr, argv, termRaw, output, cycles,
                   seIn, seOut>>

CheckArgs ==
    /\ loc = "args"
    /\ IF argc < 2
       THEN /\ exitCode' = 2
            /\ loc' = "exited"
            /\ j' = j
       ELSE /\ j' = 1
            /\ loc' = "load"
            /\ exitCode' = exitCode
    /\ UNCHANGED <<memory, reg, running, instr, argv, termRaw, output, cycles,
                   seIn, seOut>>

\* 86-91: one turn of the loading loop
LoadImage_continue ==
    /\ loc = "load"
    /\ j < argc
    /\ IF ~argv[j].ok
       THEN /\ j' = j + 1
            /\ UNCHANGED <<memory, exitCode, loc>>
       ELSE /\ memory' = read_image(memory, argv[j])
            /\ j' = j + 1
            /\ UNCHANGED <<exitCode, loc>>
    /\ UNCHANGED <<reg, running, instr, argv, termRaw, output, cycles, seIn, seOut>>

LoadImage ==
    /\ loc = "load"
    /\ j < argc
    /\ IF ~argv[j].ok
       THEN /\ exitCode' = 1
            /\ loc' = "exited"
            /\ UNCHANGED <<memory, j>>
       ELSE /\ memory' = read_image(memory, argv[j])
            /\ j' = j + 1
            /\ UNCHANGED <<exitCode, loc>>
    /\ UNCHANGED <<reg, running, instr, argv, termRaw, output, cycles, seIn, seOut>>

\* 93-105: the interrupt handler is installed, the terminal goes raw,
\* COND and PC get their start values, running = 1
Setup_nocond ==
    /\ loc = "load"
    /\ j >= argc
    /\ termRaw' = TRUE
    /\ reg' = [reg EXCEPT ![R_PC] = PC_START]
    /\ running' = TRUE
    /\ loc' = "loop"
    /\ UNCHANGED <<memory, instr, argv, j, exitCode, output, cycles, seIn, seOut>>

Setup ==
    /\ loc = "load"
    /\ j >= argc
    /\ termRaw' = TRUE
    /\ reg' = [reg EXCEPT ![R_COND] = FL_ZRO, ![R_PC] = PC_START]
    /\ running' = TRUE
    /\ loc' = "loop"
    /\ UNCHANGED <<memory, instr, argv, j, exitCode, output, cycles, seIn, seOut>>

(***************************************************************************)
(* The loop (src/lc3.c 106-194)                                            *)
(***************************************************************************)
\* 106-109: the loop test and the fetch, reg[R_PC]++
Fetch_nowrap ==
    /\ loc = "loop"
    /\ running
    /\ cycles < MaxCycles
    /\ \E key \in Poll(reg[R_PC]) :
         LET rd == mem_read(memory, reg[R_PC], key)
         IN /\ instr' = rd.val
            /\ memory' = rd.mem
    /\ reg' = [reg EXCEPT ![R_PC] = reg[R_PC] + 1]
    /\ loc' = "exec"
    /\ cycles' = cycles + 1
    /\ UNCHANGED <<running, argv, j, termRaw, exitCode, output, seIn, seOut>>

Fetch_norun ==
    /\ loc = "loop"
    /\ cycles < MaxCycles
    /\ \E key \in Poll(reg[R_PC]) :
         LET rd == mem_read(memory, reg[R_PC], key)
         IN /\ instr' = rd.val
            /\ memory' = rd.mem
    /\ reg' = [reg EXCEPT ![R_PC] = U16(reg[R_PC] + 1)]
    /\ loc' = "exec"
    /\ cycles' = cycles + 1
    /\ UNCHANGED <<running, argv, j, termRaw, exitCode, output, seIn, seOut>>

Fetch ==
    /\ loc = "loop"
    /\ running
    /\ cycles < MaxCycles
    /\ \E key \in Poll(reg[R_PC]) :
         LET rd == mem_read(memory, reg[R_PC], key)
         IN /\ instr' = rd.val
            /\ memory' = rd.mem
    /\ reg' = [reg EXCEPT ![R_PC] = U16(reg[R_PC] + 1)]
    /\ loc' = "exec"
    /\ cycles' = cycles + 1
    /\ UNCHANGED <<running, argv, j, termRaw, exitCode, output, seIn, seOut>>

\* 106, 195-196: the loop test fails, the terminal is restored, main returns
LoopExit ==
    /\ loc = "loop"
    /\ ~running
    /\ termRaw' = FALSE
    /\ exitCode' = 0
    /\ loc' = "exited"
    /\ UNCHANGED <<memory, reg, running, instr, argv, j, output, cycles, seIn, seOut>>

\* the handlers that change registers only
RegHandler(op, newreg) ==
    /\ loc = "exec"
    /\ OpOf(instr) = op
    /\ reg' = newreg
    /\ loc' = "loop"
    /\ UNCHANGED <<memory, running, instr, argv, j, termRaw, exitCode, output,
                   cycles, seIn, seOut>>

\* the handlers that read memory: every read may poll the keyboard
LoadHandler(op, res) ==
    /\ loc = "exec"
    /\ OpOf(instr) = op
    /\ reg' = res.reg
    /\ memory' = res.mem
    /\ loc' = "loop"
    /\ UNCHANGED <<running, instr, argv, j, termRaw, exitCode, output, cycles,
                   seIn, seOut>>

\* the handlers that write memory
StoreHandler(op, newmem) ==
    /\ loc = "exec"
    /\ OpOf(instr) = op
    /\ memory' = newmem
    /\ loc' = "loop"
    /\ UNCHANGED <<reg, running, instr, argv, j, termRaw, exitCode, output,
                   cycles, seIn, seOut>>

ExecADD == RegHandler(OP_ADD, op_add(reg, instr))

ExecAND == RegHandler(OP_AND, op_and(reg, instr))

ExecNOT == RegHandler(OP_NOT, op_not(reg, instr))

ExecBR == RegHandler(OP_BR, op_br(reg, instr))

ExecJMP == RegHandler(OP_JMP, op_jmp(reg, instr))

ExecJSR == RegHandler(OP_JSR, op_jsr(reg, instr))

ExecLEA == RegHandler(OP_LEA, op_lea(reg, instr))

\* the address the PC-relative handlers form, and the one LDR forms
PcRelative(i) == reg[R_PC] + sign_extend(BitAnd(i, 511), 9)
BaseRelative(i) == reg[BitAnd(Shr(i, 6), 7)] + sign_extend(BitAnd(i, 63), 6)

ExecLDI ==
    \E k1 \in Poll(PcRelative(instr)) :
      \E k2 \in Poll(mem_read(memory, PcRelative(instr), k1).val) :
        LoadHandler(OP_LDI, op_ldi(reg, memory, instr, k1, k2))

ExecLD ==
    \E k1 \in Poll(PcRelative(instr)) :
      LoadHandler(OP_LD, op_ld(reg, memory, instr, k1))

ExecLDR ==
    \E k1 \in Poll(BaseRelative(instr)) :
      LoadHandler(OP_LDR, op_ldr(reg, memory, instr, k1))

ExecST == StoreHandler(OP_ST, op_st(reg, memory, instr))

ExecSTI ==
    \E k1 \in Poll(PcRelative(instr)) :
      StoreHandler(OP_STI, op_sti(reg, memory, instr, k1))

ExecSTR == StoreHandler(OP_STR, op_str(reg, memory, instr))

(***************************************************************************)
(* OP_TRAP (design document, section 4.6): the routine the 8-bit vector    *)
(* names runs and the loop goes on; HALT clears running.                   *)
(***************************************************************************)
TrapVector(i) == BitAnd(i, 255)

TrapRoutine(vect, newreg, written, stillRunning) ==
    /\ loc = "exec"
    /\ OpOf(instr) = OP_TRAP
    /\ TrapVector(instr) = vect
    /\ reg' = newreg
    /\ output' = output \o written
    /\ running' = stillRunning
    /\ loc' = "loop"
    /\ UNCHANGED <<memory, instr, argv, j, termRaw, exitCode, cycles, seIn, seOut>>

TrapGETC ==
    \E ch \in Keys : TrapRoutine(TRAP_GETC, [reg EXCEPT ![R_R0] = ch], <<>>, TRUE)

TrapOUT == TrapRoutine(TRAP_OUT, reg, <<BitAnd(reg[R_R0], 255)>>, TRUE)

TrapPUTS == TrapRoutine(TRAP_PUTS, reg, puts_chars(memory, reg[R_R0]), TRUE)

TrapIN ==
    \E ch \in Keys :
      TrapRoutine(TRAP_IN, [reg EXCEPT ![R_R0] = ch], InPrompt \o <<ch>>, TRUE)

TrapPUTSP == TrapRoutine(TRAP_PUTSP, reg, putsp_chars(memory, reg[R_R0]), TRUE)

TrapHALT == TrapRoutine(TRAP_HALT, reg, HaltMessage, FALSE)

\* any other vector: no routine, nothing happens
TrapOther ==
    /\ TrapVector(instr) \notin
         {TRAP_GETC, TRAP_OUT, TRAP_PUTS, TRAP_IN, TRAP_PUTSP, TRAP_HALT}
    /\ TrapRoutine(TrapVector(instr), reg, <<>>, TRUE)

\* 188-192: OP_RES, OP_RTI and default: abort()
Handled ==
    {OP_ADD, OP_AND, OP_NOT, OP_BR, OP_JMP, OP_JSR, OP_LD, OP_LDI, OP_LDR,
     OP_LEA, OP_ST, OP_STI, OP_STR, OP_TRAP}

Abort_resume ==
    /\ loc = "exec"
    /\ OpOf(instr) \notin Handled
    /\ loc' = "loop"
    /\ UNCHANGED <<memory, reg, running, instr, argv, j, termRaw, exitCode,
                   output, cycles, seIn, seOut>>

Abort_fallthrough ==
    /\ loc = "exec"
    /\ OpOf(instr) \notin (Handled \ {OP_STR})
    /\ loc' = "aborted"
    /\ UNCHANGED <<memory, reg, running, instr, argv, j, termRaw, exitCode,
                   output, cycles, seIn, seOut>>

Abort ==
    /\ loc = "exec"
    /\ OpOf(instr) \notin Handled
    /\ loc' = "aborted"
    /\ UNCHANGED <<memory, reg, running, instr, argv, j, termRaw, exitCode,
                   output, cycles, seIn, seOut>>

(***************************************************************************)
(* handle_interrupt, installed at src/lc3.c 94 (design document, section   *)
(* 5): SIGINT restores the terminal and ends the process.                  *)
(***************************************************************************)
Interrupt ==
    /\ loc \in {"loop", "exec"}
    /\ termRaw' = FALSE
    /\ loc' = "interrupted"
    /\ UNCHANGED <<memory, reg, running, instr, argv, j, exitCode, output,
                   cycles, seIn, seOut>>

Next ==
    \/ CheckArgs
    \/ LoadImage
    \/ Setup
    \/ Fetch
    \/ LoopExit
    \/ ExecADD
    \/ ExecAND
    \/ ExecNOT
    \/ ExecBR
    \/ ExecJMP
    \/ ExecJSR
    \/ ExecLD
    \/ ExecLDI
    \/ ExecLDR
    \/ ExecLEA
    \/ ExecST
    \/ ExecSTI
    \/ ExecSTR
    \/ TrapGETC
    \/ TrapOUT
    \/ TrapPUTS
    \/ TrapIN
    \/ TrapPUTSP
    \/ TrapHALT
    \/ TrapOther
    \/ Abort
    \/ Interrupt

Spec == Init /\ [][Next]_vars

(***************************************************************************)
(* sign_extend alone: one call on an argument drawn from the values that   *)
(* fit the field width.                                                    *)
(***************************************************************************)
InitSignExtend ==
    /\ InitMachine
    /\ argv = <<>>
    /\ seIn \in { [x |-> x, w |-> w] : x \in 0..2047, w \in SignExtendWidths }
    /\ seIn.x < 2 ^ seIn.w
    /\ seOut = NoResult

CallSignExtend ==
    /\ seOut = NoResult
    /\ seOut' = sign_extend(seIn.x, seIn.w)
    /\ UNCHANGED <<machine, seIn>>

NextSignExtend == CallSignExtend

SpecSignExtend == InitSignExtend /\ [][NextSignExtend]_vars

(***************************************************************************)
(* The vocabulary of the properties: the fields of an instruction word     *)
(* and two's complement, by arithmetic.                                    *)
(***************************************************************************)
Opcode(i) == i \div 4096
FieldDR(i) == (i \div 512) % 8
FieldSR1(i) == (i \div 64) % 8
FieldSR2(i) == i % 8
ImmMode(i) == (i \div 32) % 2 = 1
FieldImm5(i) == i % 32
FieldOff9(i) == i % 512

\* the number a w-bit field k stands for, and a number as a 16-bit word
Signed(k, w) == IF k >= 2 ^ (w - 1) THEN k - 2 ^ w ELSE k
Word16(n) == (n + 65536) % 65536

GeneralRegs == 0..7

\* the flag that goes with a 16-bit value
FlagOf(v) == IF v = 0 THEN FL_ZRO ELSE IF v >= 32768 THEN FL_NEG ELSE FL_POS

\* a step of the loop that runs the handler of the fetched instruction
HandlerStep == loc = "exec" /\ loc' = "loop"
\* a step of main, as opposed to the arrival of SIGINT
MainStep == loc' # "interrupted"

\* the states of the execution loop (design document, section 4.7)
Halted == cycles > 0 /\ ~running
Failed == loc = "aborted"

SameRegistersAndMemory ==
    /\ \A r \in GeneralRegs : reg'[r] = reg[r]
    /\ reg'[R_COND] = reg[R_COND]
    /\ memory' = memory

(***************************************************************************)
(* C1.  After every ADD, AND or LDI the loop executes, COND is the one     *)
(* flag that goes with the new value of the destination register: ZERO    *)
(* for 0, NEGATIVE when bit 15 is set, POSITIVE otherwise.                 *)
(***************************************************************************)
C1_FlagsMatchDestination ==
    (loc = "loop" /\ cycles > 0 /\ Opcode(instr) \in {OP_ADD, OP_AND, OP_LDI})
        => /\ reg[R_COND] \in {FL_NEG, FL_ZRO, FL_POS}
           /\ reg[R_COND] = FlagOf(reg[FieldDR(instr)])

\* an addition that overflows into the sign bit: 0x7FFF + 1
C1_Witness ==
    /\ loc = "loop"
    /\ instr = EncReg(OP_ADD, 0, 1, 2)
    /\ reg[0] = 32768
    /\ reg[R_COND] = FL_NEG

(***************************************************************************)
(* C2.  A fetched word whose opcode is 8 (RTI) or 13 (RES) makes main      *)
(* abort: the step changes no register, not COND and no memory cell, and   *)
(* after it nothing is fetched or executed.                                *)
(***************************************************************************)
C2_ReservedOpcodeAborts ==
    [][ /\ (loc = "exec" /\ Opcode(instr) \in {8, 13} /\ MainStep)
            => /\ loc' = "aborted"
               /\ SameRegistersAndMemory
               /\ reg'[R_PC] = reg[R_PC]
               /\ cycles' = cycles
        /\ loc = "aborted" => UNCHANGED vars ]_vars

C2_Witness ==
    /\ loc = "aborted"
    /\ Opcode(instr) = 13
    /\ cycles = 3
    /\ reg[1] = 32767

(***************************************************************************)
(* C3.  With TRAP HALT (0xF025) at 0x3000 when the loop starts, the first  *)
(* fetch cycle reads it and its handler ends the loop (running = 0); R0 to *)
(* R7, COND and memory are as before the cycle, the halt message is the    *)
(* only output, and no second fetch follows.                               *)
(***************************************************************************)
C3_HaltFirst ==
    [][ /\ (loc = "loop" /\ cycles = 0 /\ MemAt(memory, 12288) = 61477 /\ MainStep)
            => /\ loc' = "exec"
               /\ instr' = 61477
               /\ cycles' = 1
               /\ running'
               /\ SameRegistersAndMemory
               /\ output' = output
        /\ (loc = "exec" /\ cycles = 1 /\ instr = 61477 /\ MainStep)
            => /\ loc' = "loop"
               /\ ~running'
               /\ SameRegistersAndMemory
               /\ output' = output \o HaltMessage
        /\ (loc = "loop" /\ cycles = 1 /\ instr = 61477)
            => /\ cycles' = 1
               /\ SameRegistersAndMemory ]_vars

C3_Witness ==
    /\ loc = "exited"
    /\ exitCode = 0
    /\ cycles = 1
    /\ instr = 61477
    /\ \A r \in GeneralRegs : reg[r] = 0
    /\ reg[R_COND] = FL_ZRO
    /\ output = HaltMessage

(***************************************************************************)
(* C4.  Whenever the process has ended, the terminal is not in the raw     *)
(* mode disable_input_buffering set.                                       *)
(***************************************************************************)
C4_TerminalRestoredAtExit ==
    loc \in {"exited", "aborted", "interrupted"} => ~termRaw

(***************************************************************************)
(* C5.  HALTED (running = 0) and FAILED (abort) are terminal: from either  *)
(* no step fetches, and PC, R0-R7, COND and memory stay as they are.       *)
(***************************************************************************)
C5_TerminalStates ==
    [][ (Halted \/ Failed)
            => /\ reg' = reg
               /\ memory' = memory
               /\ instr' = instr
               /\ cycles' = cycles
               /\ loc' # "exec"
               /\ Halted' = Halted
               /\ Failed' = Failed ]_vars

\* a halted loop that has gone on to leave main
C5_Witness ==
    /\ Halted
    /\ loc = "exited"
    /\ cycles = 2
    /\ reg[0] = 5

(***************************************************************************)
(* C6.  The loop stops running in two ways only: running is cleared by the *)
(* handler of TRAP HALT, and main aborts on a fetched opcode 8 or 13.      *)
(* The handler of every other word returns to the loop test with running   *)
(* set, where the next fetch is due.  (SIGINT ends the process from        *)
(* outside; it is not a transition of the loop.)                           *)
(***************************************************************************)
IsHaltWord(i) == Opcode(i) = 15 /\ i % 256 = 37

C6_OnlyHaltAndReserved ==
    /\ [][ /\ (running /\ ~running') => (loc = "exec" /\ IsHaltWord(instr))
           /\ (loc' = "aborted" /\ loc # "aborted")
               => (loc = "exec" /\ Opcode(instr) \in {8, 13})
           /\ (loc = "exec" /\ MainStep /\ ~IsHaltWord(instr)
                   /\ Opcode(instr) \notin {8, 13})
               => (loc' = "loop" /\ running') ]_vars
    /\ [](loc = "loop" /\ running /\ cycles < MaxCycles => ENABLED Fetch)

\* an LDI has run and the loop goes on
C6_Witness ==
    /\ loc = "exec"
    /\ cycles = 2
    /\ running
    /\ Opcode(instr) = OP_LDI

(***************************************************************************)
(* C7.  ADD leaves in DR the sum, modulo 65536, of reg[SR1] and the second *)
(* operand: reg[SR2], or the number the 5-bit immediate stands for.  From  *)
(* the initial state one cycle of ADD R0, R0, #5 (0x1025) gives R0 = 5 and *)
(* COND = POSITIVE.                                                        *)
(***************************************************************************)
SecondOperand(rg, i) ==
    IF ImmMode(i) THEN Signed(FieldImm5(i), 5) ELSE rg[FieldSR2(i)]

C7_AddIsSumMod65536 ==
    [][ /\ (HandlerStep /\ Opcode(instr) = 1)
            => reg'[FieldDR(instr)]
                 = Word16(reg[FieldSR1(instr)] + SecondOperand(reg, instr))
        /\ (HandlerStep /\ cycles = 1 /\ instr = 4133)
            => (reg'[0] = 5 /\ reg'[R_COND] = FL_POS) ]_vars

\* DR = SR1 = SR2 and a sum that wraps: ADD R1, R1, R1 with R1 = 0x8000
C7_Witness ==
    /\ loc = "loop"
    /\ instr = EncReg(OP_ADD, 1, 1, 1)
    /\ MemAt(memory, ValCell1) = 32768
    /\ reg[1] = 0
    /\ reg[R_COND] = FL_ZRO

(***************************************************************************)
(* C8.  ADD and AND in immediate mode, on source value s and immediate k,  *)
(* leave in DR and in COND what the register-mode instruction leaves when  *)
(* its second source register holds k sign-extended to 16 bits.            *)
(***************************************************************************)
\* the register-mode word with the fields of immediate-mode word i and SR2 = r2
RegisterForm(i, r2) == (i \div 64) * 64 + r2

HandlerOf(i, rg) == IF Opcode(i) = 1 THEN op_add(rg, i) ELSE op_and(rg, i)

C8_ImmediateAsRegisterMode ==
    [][ (HandlerStep /\ Opcode(instr) \in {1, 5} /\ ImmMode(instr))
            => \A r2 \in GeneralRegs \ {FieldSR1(instr)} :
                 LET held == [reg EXCEPT ![r2] = Word16(Signed(FieldImm5(instr), 5))]
                     byReg == HandlerOf(RegisterForm(instr, r2), held)
                 IN /\ byReg[FieldDR(instr)] = reg'[FieldDR(instr)]
                    /\ byReg[R_COND] = reg'[R_COND] ]_vars

\* ADD R0, R1, #-1 on R1 = 0: R0 = 0xFFFF
C8_Witness ==
    /\ loc = "loop"
    /\ instr = EncImm(OP_ADD, 0, 1, 31)
    /\ reg[1] = 0
    /\ reg[0] = 65535
    /\ reg[R_COND] = FL_NEG

(***************************************************************************)
(* C9.  For w in {5, 6, 9, 11} and x < 2^w, sign_extend(x, w) read as a    *)
(* signed 16-bit number is x read as a signed w-bit number: the low w bits *)
(* are those of x and bits w..15 all equal bit w-1.                        *)
(***************************************************************************)
C9_SignExtendExact ==
    seOut # NoResult =>
        LET x == seIn.x
            w == seIn.w
            signbit == (x \div 2 ^ (w - 1)) % 2
        IN /\ seOut \in 0..65535
           /\ Signed(seOut, 16) = Signed(x, w)
           /\ seOut % 2 ^ w = x
           /\ seOut \div 2 ^ w = signbit * (2 ^ (16 - w) - 1)

\* the 11-bit field of all ones is -1
C9_Witness ==
    /\ seIn = [x |-> 2047, w |-> 11]
    /\ seOut = 65535

(***************************************************************************)
(* C10.  LDI with effective address A leaves in DR the word at the address *)
(* stored in memory[A], DR = memory[memory[A]], and with it the value and  *)
(* the COND of a direct LD whose effective address is memory[A].           *)
(***************************************************************************)
C10_LdiIsLdThroughPointer ==
    [][ (HandlerStep /\ Opcode(instr) = 10)
            => LET A == Word16(reg[R_PC] + Signed(FieldOff9(instr), 9))
                   pointer == MemAt(memory', A)
                   dr == FieldDR(instr)
               IN /\ reg'[dr] = MemAt(memory', pointer)
                  /\ \A off \in 0..511 :
                       Word16(reg[R_PC] + Signed(off, 9)) = pointer
                         => \E k \in Poll(pointer) :
                              LET direct == op_ld(reg, memory, EncOff9(OP_LD, dr, off), k)
                              IN /\ direct.reg[dr] = reg'[dr]
                                 /\ direct.reg[R_COND] = reg'[R_COND] ]_vars

\* LDI R1 at 0x3000 through the pointer cell: an LD with offset 17 reaches the value
C10_Witness ==
    /\ loc = "loop"
    /\ cycles = 1
    /\ instr = EncOff9(OP_LDI, 1, DataAt - 1)
    /\ MemAt(memory, PtrCell1) = reg[R_PC] + 17
    /\ reg[1] = 21845
    /\ reg[R_COND] = FL_POS

(***************************************************************************)
(* C11.  BR is taken exactly when one of its n, z, p bits (11, 10, 9) is   *)
(* the flag COND holds.  Taken, PC becomes the incremented PC plus the     *)
(* number the 9-bit offset stands for, modulo 65536; not taken (COND =     *)
(* ZERO with only n and p set, say) the handler leaves PC as the fetch     *)
(* left it.  COND is never changed.                                        *)
(***************************************************************************)
BranchTaken(i, cond) ==
    \/ (i \div 2048) % 2 = 1 /\ cond = FL_NEG
    \/ (i \div 1024) % 2 = 1 /\ cond = FL_ZRO
    \/ (i \div 512) % 2 = 1 /\ cond = FL_POS

C11_BranchOnFlags ==
    [][ (HandlerStep /\ Opcode(instr) = 0)
            => /\ reg'[R_PC] = IF BranchTaken(instr, reg[R_COND])
                               THEN Word16(reg[R_PC] + Signed(FieldOff9(instr), 9))
                               ELSE reg[R_PC]
               /\ (reg[R_COND] = FL_ZRO /\ (instr \div 512) % 8 = 5)
                      => reg'[R_PC] = reg[R_PC]
               /\ reg'[R_COND] = reg[R_COND]
               /\ \A r \in GeneralRegs : reg'[r] = reg[r] ]_vars

\* BRnzp -2 fetched at 0x3002 with COND = NEGATIVE lands on 0x3001
C11_Witness ==
    /\ loc = "loop"
    /\ cycles = 3
    /\ instr = EncOff9(OP_BR, 7, 510)
    /\ reg[R_COND] = FL_NEG
    /\ reg[R_PC] = 12289

(***************************************************************************)
(* C12.  The exit status of the process: 2 when no image is named (the     *)
(* usage error), 1 when an image fails to load, 0 when main returns after  *)
(* the loop has ended.  A single image is enough to run.                   *)
(***************************************************************************)
NoImageNamed == Len(argv) = 0
SomeImageFails == \E k \in 1..Len(argv) : ~argv[k].ok

C12_ExitCodes ==
    /\ loc # "exited" => exitCode = NoExit
    /\ loc = "exited"
         => exitCode = IF NoImageNamed THEN 2 ELSE IF SomeImageFails THEN 1 ELSE 0
    /\ exitCode = 0 => Halted
    /\ NoImageNamed => loc \in {"args", "exited"}
    /\ (Len(argv) = 1 /\ ~SomeImageFails /\ loc = "exited") => (exitCode = 0 /\ cycles > 0)

\* one image, run to HALT
C12_Witness ==
    /\ loc = "exited"
    /\ Len(argv) = 1
    /\ exitCode = 0
    /\ cycles = 2

\* C12 as stated: zero or one image argument ends the process with status 2
C12_OneImageIsUsageError ==
    /\ Len(argv) <= 1 => loc \in {"args", "exited"}
    /\ (Len(argv) <= 1 /\ loc = "exited") => exitCode = 2
    /\ (Len(argv) > 1 /\ loc = "exited") => exitCode = IF SomeImageFails THEN 1 ELSE 0

(***************************************************************************)
(* C13.  Start-up failures never reach the loop.  The images are loaded in *)
(* the order of the arguments (where two overlap, the later one shows);    *)
(* when no image is named or one fails to load, the process ends with the  *)
(* terminal untouched, PC and COND not yet set and nothing fetched.        *)
(***************************************************************************)
Covers(file, a) ==
    file.ok /\ a >= file.origin /\ a < file.origin + Len(file.words) /\ a < 65536

\* cell a after the first n files are loaded in order
LoadedCell(a, n) ==
    LET writers == { k \in 1..n : Covers(argv[k], a) }
    IN IF writers = {} THEN 0
       ELSE LET last == CHOOSE k \in writers : \A other \in writers : other <= k
            IN argv[last].words[a - argv[last].origin + 1]

CellsOf(n) ==
    UNION { { a \in argv[k].origin..(argv[k].origin + Len(argv[k].words)) : a < 65536 }
            : k \in 1..n }

C13_StartupFailuresStopEarly ==
    /\ (loc = "load" \/ exitCode = 1)
         => /\ \A k \in 1..(j - 1) : argv[k].ok
            /\ \A a \in CellsOf(j - 1) \cup DOMAIN memory :
                 MemAt(memory, a) = LoadedCell(a, j - 1)
    /\ exitCode = 1 => ~argv[j].ok
    /\ loc \in {"loop", "exec"} => (~NoImageNamed /\ ~SomeImageFails /\ j = argc)
    /\ (NoImageNamed \/ SomeImageFails)
         => /\ loc \in {"args", "load", "exited"}
            /\ ~termRaw
            /\ ~running
            /\ cycles = 0
            /\ instr = 0
            /\ output = <<>>
            /\ \A r \in 0..9 : reg[r] = 0

\* the first image is in memory, the second could not be opened
C13_Witness ==
    /\ loc = "exited"
    /\ exitCode = 1
    /\ Len(argv) = 2
    /\ j = 2
    /\ MemAt(memory, 12288) = 61477
    /\ ~termRaw
    /\ reg[R_PC] = 0

(***************************************************************************)
(* C14.  From the start of the loop on, COND holds exactly one of FL_POS,  *)
(* FL_ZRO, FL_NEG: it is FL_ZRO when the loop starts and changes only in   *)
(* the handler of an instruction that sets the flags, never as the target  *)
(* of a 3-bit register field.                                              *)
(***************************************************************************)
LoopStarted == loc \in {"loop", "exec", "aborted", "interrupted"} \/ exitCode = 0

FlagSetting == {OP_ADD, OP_AND, OP_NOT, OP_LD, OP_LDI, OP_LDR, OP_LEA}

C14_OneFlagAlways ==
    /\ [](LoopStarted => reg[R_COND] \in {FL_POS, FL_ZRO, FL_NEG})
    /\ []((loc = "loop" /\ cycles = 0) => reg[R_COND] = FL_ZRO)
    /\ [][ (LoopStarted /\ reg'[R_COND] # reg[R_COND])
               => (HandlerStep /\ Opcode(instr) \in FlagSetting) ]_vars

\* an AND whose result has bit 15 set, as the third instruction
C14_Witness ==
    /\ loc = "loop"
    /\ cycles = 3
    /\ Opcode(instr) = OP_AND
    /\ reg[R_COND] = FL_NEG
    /\ reg[7] = 0

(***************************************************************************)
(* C15.  AND leaves in DR the bitwise AND of reg[SR1] and the second       *)
(* operand (reg[SR2], or the immediate sign-extended to 16 bits): bit k of *)
(* the result is set exactly when bit k of both operands is.  With         *)
(* immediate 0 the result is 0 and COND is ZERO; with immediate 0x1F (-1)  *)
(* the result is reg[SR1].                                                 *)
(***************************************************************************)
Bit(x, k) == (x \div 2 ^ k) % 2

C15_AndIsBitwise ==
    [][ (HandlerStep /\ Opcode(instr) = 5)
            => LET a == reg[FieldSR1(instr)]
                   b == Word16(SecondOperand(reg, instr))
                   result == reg'[FieldDR(instr)]
               IN /\ result \in 0..65535
                  /\ \A k \in 0..15 :
                       Bit(result, k) = 1 <=> (Bit(a, k) = 1 /\ Bit(b, k) = 1)
                  /\ (ImmMode(instr) /\ FieldImm5(instr) = 0)
                         => (result = 0 /\ reg'[R_COND] = FL_ZRO)
                  /\ (ImmMode(instr) /\ FieldImm5(instr) = 31) => result = a ]_vars

\* AND R0, R1, #-1 copies R1 = 0x1234
C15_Witness ==
    /\ loc = "loop"
    /\ instr = EncImm(OP_AND, 0, 1, 31)
    /\ reg[1] = 4660
    /\ reg[0] = 4660
    /\ reg[R_COND] = FL_POS

(***************************************************************************)
(* C16.  For an LDI fetched at address a with offset field f, the          *)
(* effective address is (a + 1 + f as a 9-bit two's complement number)     *)
(* modulo 65536: a sum past 0xFFFF comes back by 65536, a sum below 0 is   *)
(* raised by 65536.  The pointer is read at that 16-bit address and the    *)
(* value at the 16-bit address the pointer holds.                          *)
(***************************************************************************)
FetchedAt == Word16(reg[R_PC] - 1)

C16_LdiAddressWraps ==
    [][ (HandlerStep /\ Opcode(instr) = 10)
            => LET sum == FetchedAt + 1 + Signed(FieldOff9(instr), 9)
                   A == (sum + 65536) % 65536
                   wrapped == IF sum > 65535 THEN sum - 65536
                              ELSE IF sum < 0 THEN sum + 65536 ELSE sum
                   pointer == MemAt(memory', A)
               IN /\ A = wrapped
                  /\ A \in 0..65535
                  /\ pointer \in 0..65535
                  /\ reg'[FieldDR(instr)] = MemAt(memory', pointer)
                  /\ \A r \in GeneralRegs \ {FieldDR(instr)} : reg'[r] = reg[r] ]_vars

\* LDI R3, #3 fetched at 0xFFFE: 0xFFFF + 3 wraps to cell 2, which points to cell 4
C16_Witness ==
    /\ loc = "loop"
    /\ instr = EncOff9(OP_LDI, 3, 3)
    /\ reg[R_PC] = 65535
    /\ MemAt(memory, 2) = 4
    /\ reg[3] = 32769
    /\ reg[R_COND] = FL_NEG

\* LDI R5, #-4 fetched at 0x0000: 1 - 4 wraps to cell 0xFFFD, which points to cell 4
C16_WitnessLow ==
    /\ loc = "loop"
    /\ instr = EncOff9(OP_LDI, 5, 508)
    /\ reg[R_PC] = 1
    /\ MemAt(memory, 65533) = 4
    /\ reg[5] = 32769

(***************************************************************************)
(* C17.  A fetch reads the instruction at the current PC and advances PC   *)
(* by one modulo 65536 before the handler runs (a fetch at 0xFFFF leaves   *)
(* PC = 0).  The handlers of ADD, AND and LDI leave PC alone.  So while    *)
(* the first n words from 0x3000 are ADD, AND or LDI, PC is                *)
(* (0x3000 + n) mod 65536 after n instructions.                            *)
(***************************************************************************)
FetchStep == loc = "loop" /\ loc' = "exec"
StraightLine == {1, 5, 10}

C17_FetchAdvancesPc ==
    /\ [][ FetchStep
             => /\ instr' = MemAt(memory', reg[R_PC])
                /\ reg'[R_PC] = (reg[R_PC] + 1) % 65536
                /\ reg'[R_PC] \in 0..65535
                /\ reg[R_PC] = 65535 => reg'[R_PC] = 0
                /\ \A r \in GeneralRegs \cup {R_COND} : reg'[r] = reg[r] ]_vars
    /\ [][ (HandlerStep /\ Opcode(instr) \in StraightLine)
             => reg'[R_PC] = reg[R_PC] ]_vars
    /\ []( ( /\ loc \in {"loop", "exec"}
             /\ \A k \in 0..(cycles - 1) :
                  Opcode(MemAt(memory, PC_START + k)) \in StraightLine )
           => reg[R_PC] = (PC_START + cycles) % 65536 )

\* the LDI at 0xFFFF is fetched: PC is 0 when its handler starts
C17_Witness ==
    /\ loc = "exec"
    /\ instr = EncOff9(OP_LDI, 4, 2)
    /\ MemAt(memory, 65535) = instr
    /\ reg[R_PC] = 0

\* three instructions LDI, LDI, ADD from 0x3000: PC = 0x3003
C17_WitnessThree ==
    /\ loc = "loop"
    /\ cycles = 3
    /\ Opcode(instr) = 1
    /\ Opcode(MemAt(memory, PC_START)) = 10
    /\ reg[R_PC] = 12291

(***************************************************************************)
(* C18.  ADD and AND change only DR, COND and, through the fetch, PC:      *)
(* every memory cell and every general register other than DR keeps its    *)
(* value.  LDI leaves every general register other than DR unchanged, and  *)
(* changes no memory cell except the keyboard status and data cells; those *)
(* change only when the effective address or the pointer read there is the *)
(* keyboard-status address, whose read polls the keyboard.                 *)
(***************************************************************************)
OtherRegistersKept == \A r \in GeneralRegs \ {FieldDR(instr)} : reg'[r] = reg[r]

KeyboardCells == {MR_KBSR, MR_KBDR}

C18_FrameEffects ==
    /\ [][ (FetchStep /\ Opcode(instr') \in {1, 5, 10})
             => /\ memory' = memory
                /\ \A r \in GeneralRegs \cup {R_COND} : reg'[r] = reg[r] ]_vars
    /\ [][ (HandlerStep /\ Opcode(instr) \in {1, 5})
             => /\ OtherRegistersKept
                /\ reg'[R_PC] = reg[R_PC]
                /\ memory' = memory ]_vars
    /\ [][ (HandlerStep /\ Opcode(instr) = 10)
             => LET A == Word16(reg[R_PC] + Signed(FieldOff9(instr), 9))
                IN /\ OtherRegistersKept
                   /\ reg'[R_PC] = reg[R_PC]
                   /\ \A a \in (DOMAIN memory \cup DOMAIN memory') \ KeyboardCells :
                        MemAt(memory', a) = MemAt(memory, a)
                   /\ memory' # memory
                        => (A = MR_KBSR \/ MemAt(memory, A) = MR_KBSR)
                   /\ MemAt(memory', MR_KBDR) # MemAt(memory, MR_KBDR)
                        => MemAt(memory', MR_KBSR) = 32768 ]_vars

\* LDI R3 through a pointer that holds the keyboard-status address, a key
\* waiting: the status and data cells are filled, R1 and R2 keep their values
C18_Witness ==
    /\ loc = "loop"
    /\ cycles = 3
    /\ instr = EncOff9(OP_LDI, 3, DataAt - 1)
    /\ MemAt(memory, ValCell1) = MR_KBSR
    /\ MemAt(memory, MR_KBSR) = 32768
    /\ MemAt(memory, MR_KBDR) = 97
    /\ reg[3] = 32768
    /\ reg[1] = MR_KBSR
    /\ reg[2] = 12305

\* the frame as first stated: no memory cell changes under ADD, AND or LDI
C18_LdiWritesNoCell ==
    [][ (HandlerStep /\ Opcode(instr) \in {1, 5, 10})
            => (OtherRegistersKept /\ memory' = memory) ]_vars

====
